---------------------------- MODULE Spec2Model ----------------------------
(***************************************************************************)
(* Model of scripts/stl-to-glb.py: the category colour table, _apply_color,*)
(* convert, split_convert and the command-line entry point.                *)
(*                                                                         *)
(* Strings (arguments, paths, category keys, geometry names) are sequences *)
(* of one-character strings, so that os.path.basename and the f-strings    *)
(* that build output paths are computed character by character.            *)
(* sys.argv[k] of the source is argv[k + 1] here (sequences are 1-based).  *)
(* The mesh library is an opaque collaborator: load returns any Trimesh or *)
(* Scene of the bounded sets below or raises, export writes or raises.     *)
(***************************************************************************)
EXTENDS Integers, Sequences, FiniteSets, TLC

\* ------------------------------------------------------------- bounds
MaxFaces == 2
MaxGeoms == 3

\* ------------------------------------------------------------- strings
SplitFlag == <<"-", "-", "s", "p", "l", "i", "t">>
KeySupports == <<"s", "u", "p", "p", "o", "r", "t", "s">>
KeyConnectors == <<"c", "o", "n", "n", "e", "c", "t", "o", "r", "s">>
KeyLockpins == <<"l", "o", "c", "k", "p", "i", "n", "s">>
KeyOther == <<"o", "t", "h", "e", "r">>
GlbExt == <<".", "g", "l", "b">>
Digits == <<"0", "1", "2", "3", "4", "5", "6", "7", "8", "9">>

\* str(n) of a non-negative integer, as the f-string on line 60 formats it.
RECURSIVE IntToStr(_)
IntToStr(n) ==
    IF n < 10 THEN <<Digits[n + 1]>>
    ELSE IntToStr(n \div 10) \o <<Digits[(n % 10) + 1]>>

\* posixpath.basename: i = p.rfind("/") + 1; return p[i:]
RFindSlash(p) ==
    LET hits == {k \in 1..Len(p) : p[k] = "/"}
    IN IF hits = {} THEN 0 ELSE CHOOSE k \in hits : \A h \in hits : h <= k

BasenameWholePath(p) == p

Basename(p) == SubSeq(p, RFindSlash(p) + 1, Len(p))

\* ------------------------------------------------------------- colours
\* CATEGORY_COLORS, components in thousandths (0.969 is 969); .get's
\* default [0.5, 0.5, 0.5, 1.0] for every other key.
CategoryColor(category) ==
    CASE category = KeySupports -> <<969, 714, 0, 1000>>
      [] category = KeyConnectors -> <<0, 337, 702, 1000>>
      [] category = KeyLockpins -> <<769, 118, 227, 1000>>
      [] category = KeyOther -> <<290, 620, 290, 1000>>
      [] OTHER -> <<500, 500, 500, 1000>>

\* (x * 255).astype(np.uint8) of one component given in thousandths: the
\* cast drops the fraction and keeps the low eight bits.
AsUint8Rounded(milli) == ((milli * 255 + 500) \div 1000) % 256

AsUint8(milli) == ((milli * 255) \div 1000) % 256

color_rgba(category) ==
    [k \in 1..4 |-> AsUint8(CategoryColor(category)[k])]

\* np.tile(color_rgba, (n, 1)): n rows, each the colour.
TileShort(rgba, n) == [f \in 1..(IF n > 0 THEN n - 1 ELSE 0) |-> rgba]

Tile(rgba, n) == [f \in 1..n |-> rgba]

\* _apply_color on one geometry: mesh.visual is replaced.
ApplyColor(g, category) ==
    [g EXCEPT !.visual = Tile(color_rgba(category), g.faces)]

\* ------------------------------------------------------------- meshes
\* A geometry: its key in Scene.geometry (empty for a bare Trimesh), its
\* face count and its per-face colour attribute.
GeomNames ==
    << <<"l", "i", "d">>, <<"b", "o", "d", "y">>, <<"p", "i", "n">>,
       <<"c", "l", "i", "p">>, <<"f", "o", "o", "t">> >>

\* The colour a loaded geometry may already carry.
LoadedColor == <<102, 102, 102, 255>>

LoadedVisual(n, has) == IF has THEN [f \in 1..n |-> LoadedColor] ELSE <<>>

NoMesh == [kind |-> "None", geoms |-> <<>>]

Trimeshes ==
    {[kind |-> "Trimesh",
      geoms |-> <<[name |-> <<>>, faces |-> n, visual |-> LoadedVisual(n, has)]>>] :
        n \in 0..MaxFaces, has \in BOOLEAN}

\* Scene.geometry is an ordered mapping; the keys are distinct and kept in
\* insertion order, which need not be sorted.
SceneOf(k, rev, faces, has) ==
    [kind |-> "Scene",
     geoms |-> [p \in 1..k |->
        [name |-> GeomNames[IF rev THEN k - p + 1 ELSE p],
         faces |-> faces[p],
         visual |-> LoadedVisual(faces[p], has)]]]

Scenes ==
    UNION {{SceneOf(k, rev, faces, has) :
                faces \in [1..k -> 0..MaxFaces], rev \in BOOLEAN, has \in BOOLEAN} :
           k \in 0..MaxGeoms}

Loadable == Trimeshes \cup Scenes

\* ------------------------------------------------------------- inputs
ScriptName == <<"s">>
InputPaths == {<<"a", ".", "s", "t", "l">>, <<"d", "/", "m", ".", "o", "b", "j">>}
OutputPaths == {<<"o">>, <<"w", "/", "o">>}
Categories ==
    {KeySupports, KeyConnectors, KeyLockpins, KeyOther,
     <<>>, <<"S", "u", "p", "p", "o", "r", "t", "s">>, <<"x">>}
ExtraArgs == {KeyOther}

Positionals ==
    {<<>>} \cup {<<a>> : a \in InputPaths}
    \cup {<<a, b>> : a \in InputPaths, b \in OutputPaths}
    \cup {<<a, b, c>> : a \in InputPaths, b \in OutputPaths, c \in Categories}
    \cup {<<a, b, c, d>> : a \in InputPaths, b \in OutputPaths,
                           c \in Categories, d \in ExtraArgs}

CommandLines ==
    {<<ScriptName>> \o p : p \in Positionals}
    \cup {<<ScriptName, SplitFlag>> \o p : p \in Positionals}

\* ------------------------------------------------------------- state
VARIABLES
    argv,        \* sys.argv
    pc,          \* position of the run
    mode,        \* "none", "convert" or "split"
    input_path, out_path, category,   \* the callee's parameters
    loaded,      \* what load returned, as returned
    mesh,        \* the loaded object as the run has changed it
    i,           \* position of the loop over mesh.geometry
    applied,     \* positions of the geometries _apply_color was called on
    results,     \* split_convert's results list
    exported,    \* the export calls that succeeded: path and entity written
    stdout, stderr, exit_code,
    loads        \* number of load calls

vars == <<argv, pc, mode, input_path, out_path, category, loaded, mesh, i,
          applied, results, exported, stdout, stderr, exit_code, loads>>

Init ==
    /\ argv \in CommandLines
    /\ pc = "start"
    /\ mode = "none"
    /\ input_path = <<>>
    /\ out_path = <<>>
    /\ category = <<>>
    /\ loaded = NoMesh
    /\ mesh = NoMesh
    /\ i = 1
    /\ applied = <<>>
    /\ results = <<>>
    /\ exported = <<>>
    /\ stdout = <<>>
    /\ stderr = <<>>
    /\ exit_code = -1
    /\ loads = 0

\* ------------------------------------------------------------- exits
\* print(usage, file=sys.stderr); sys.exit(1)
UsageExit(form) ==
    /\ pc' = "usage"
    /\ stderr' = Append(stderr, form)
    /\ exit_code' = 1
    /\ UNCHANGED <<argv, mode, input_path, out_path, category, loaded, mesh, i,
                   applied, results, exported, stdout, loads>>

\* An exception of the library, uncaught: traceback on stderr, status 1.
Raised ==
    /\ pc' = "failed"
    /\ stderr' = Append(stderr, "Traceback")
    /\ exit_code' = 1

\* ------------------------------------------------------------- __main__
IsSplitFormWithOperands(a) == Len(a) >= 4 /\ a[2] = SplitFlag

IsSplitForm(a) == Len(a) >= 2 /\ a[2] = SplitFlag

\* sys.argv[k] if len(sys.argv) > k else "supports"
CategoryArgDefaultOther(a, k) == IF Len(a) > k THEN a[k + 1] ELSE KeyOther

CategoryArg(a, k) == IF Len(a) > k THEN a[k + 1] ELSE KeySupports

Call(m, inp, out, cat) ==
    /\ mode' = m
    /\ input_path' = inp
    /\ out_path' = out
    /\ category' = cat
    /\ pc' = IF m = "split" THEN "s_load" ELSE "c_load"
    /\ UNCHANGED <<argv, loaded, mesh, i, applied, results, exported, stdout,
                   stderr, exit_code, loads>>

Main ==
    /\ pc = "start"
    /\ IF IsSplitForm(argv)
       THEN IF Len(argv) < 4
            THEN UsageExit("Usage --split")
            ELSE Call("split", argv[3], argv[4], CategoryArg(argv, 4))
       ELSE IF Len(argv) < 3
            THEN UsageExit("Usage")
            ELSE Call("convert", argv[2], argv[3], CategoryArg(argv, 3))

\* ------------------------------------------------------------- convert
ConvertLoad ==
    /\ pc = "c_load"
    /\ \E m \in Loadable :
        /\ loaded' = m
        /\ mesh' = m
    /\ loads' = loads + 1
    /\ i' = 1
    /\ pc' = "c_colour"
    /\ UNCHANGED <<argv, mode, input_path, out_path, category, applied, results,
                   exported, stdout, stderr, exit_code>>

ConvertLoadFails ==
    /\ pc = "c_load"
    /\ loads' = loads + 1
    /\ Raised
    /\ UNCHANGED <<argv, mode, input_path, out_path, category, loaded, mesh, i,
                   applied, results, exported, stdout>>

\* One call of _apply_color: an iteration of the loop over
\* mesh.geometry.values(), or the single call on a bare Trimesh.
ConvertColour ==
    /\ pc = "c_colour"
    /\ i <= Len(mesh.geoms)
    /\ mesh' = [mesh EXCEPT !.geoms[i] = ApplyColor(@, category)]
    /\ applied' = Append(applied, i)
    /\ i' = i + 1
    /\ UNCHANGED <<argv, pc, mode, input_path, out_path, category, loaded,
                   results, exported, stdout, stderr, exit_code, loads>>

ConvertExportEarly ==
    /\ pc = "c_colour"
    /\ exported' = Append(exported, [path |-> out_path, entity |-> mesh])
    /\ pc' = "done"
    /\ exit_code' = 0
    /\ UNCHANGED <<argv, mode, input_path, out_path, category, loaded, mesh, i,
                   applied, results, stdout, stderr, loads>>

ConvertExport ==
    /\ pc = "c_colour"
    /\ i > Len(mesh.geoms)
    /\ exported' = Append(exported, [path |-> out_path, entity |-> mesh])
    /\ pc' = "done"
    /\ exit_code' = 0
    /\ UNCHANGED <<argv, mode, input_path, out_path, category, loaded, mesh, i,
                   applied, results, stdout, stderr, loads>>

ConvertExportFails ==
    /\ pc = "c_colour"
    /\ i > Len(mesh.geoms)
    /\ Raised
    /\ UNCHANGED <<argv, mode, input_path, out_path, category, loaded, mesh, i,
                   applied, results, exported, stdout, loads>>

\* ------------------------------------------------------------- split_convert
\* isinstance(mesh, trimesh.Scene) and len(mesh.geometry) > 1
IsMultiFromOne(m) == m.kind = "Scene" /\ Len(m.geoms) >= 1

IsMulti(m) == m.kind = "Scene" /\ Len(m.geoms) > 1

\* enumerate(items, start)
Enumerate(items, start) ==
    [p \in 1..Len(items) |-> [index |-> start + p - 1, item |-> items[p]]]

GeometryItemsFromZero(m) == Enumerate(m.geoms, 0)

\* enumerate(mesh.geometry.items(), start=1)
GeometryItems(m) == Enumerate(m.geoms, 1)

SplitLoad ==
    /\ pc = "s_load"
    /\ \E m \in Loadable :
        /\ loaded' = m
        /\ mesh' = m
        /\ pc' = IF IsMulti(m) THEN "s_each" ELSE "s_single"
    /\ loads' = loads + 1
    /\ results' = <<>>
    /\ i' = 1
    /\ UNCHANGED <<argv, mode, input_path, out_path, category, applied,
                   exported, stdout, stderr, exit_code>>

SplitLoadFails ==
    /\ pc = "s_load"
    /\ loads' = loads + 1
    /\ Raised
    /\ UNCHANGED <<argv, mode, input_path, out_path, category, loaded, mesh, i,
                   applied, results, exported, stdout>>

\* One iteration of the loop of lines 58-66: colourise, export, record.
SplitEach ==
    /\ pc = "s_each"
    /\ i <= Len(mesh.geoms)
    /\ LET it == GeometryItems(mesh)[i]
           g == ApplyColor(it.item, category)
           filename == out_path \o <<"-">> \o IntToStr(it.index) \o GlbExt
       IN /\ mesh' = [mesh EXCEPT !.geoms[i] = g]
          /\ applied' = Append(applied, i)
          /\ exported' = Append(exported,
                [path |-> filename,
                 entity |-> [kind |-> "Trimesh", geoms |-> <<g>>]])
          /\ results' = Append(results,
                [index |-> it.index, name |-> it.item.name,
                 file |-> Basename(filename)])
    /\ i' = i + 1
    /\ pc' = IF i + 1 > Len(mesh.geoms) THEN "s_print" ELSE "s_each"
    /\ UNCHANGED <<argv, mode, input_path, out_path, category, loaded, stdout,
                   stderr, exit_code, loads>>

SplitEachExportSkipped ==
    /\ pc = "s_each"
    /\ i <= Len(mesh.geoms)
    /\ mesh' = [mesh EXCEPT !.geoms[i] = ApplyColor(@, category)]
    /\ applied' = Append(applied, i)
    /\ i' = i + 1
    /\ pc' = IF i + 1 > Len(mesh.geoms) THEN "s_print" ELSE "s_each"
    /\ UNCHANGED <<argv, mode, input_path, out_path, category, loaded, results,
                   exported, stdout, stderr, exit_code, loads>>

\* The iteration whose export raises: the geometry is already colourised.
SplitEachExportFails ==
    /\ pc = "s_each"
    /\ i <= Len(mesh.geoms)
    /\ mesh' = [mesh EXCEPT !.geoms[i] = ApplyColor(@, category)]
    /\ applied' = Append(applied, i)
    /\ Raised
    /\ UNCHANGED <<argv, mode, input_path, out_path, category, loaded, i,
                   results, exported, stdout, loads>>

\* Lines 69-73: one call of _apply_color in the single-file branch.
SplitSingleColour ==
    /\ pc = "s_single"
    /\ i <= Len(mesh.geoms)
    /\ mesh' = [mesh EXCEPT !.geoms[i] = ApplyColor(@, category)]
    /\ applied' = Append(applied, i)
    /\ i' = i + 1
    /\ UNCHANGED <<argv, pc, mode, input_path, out_path, category, loaded,
                   results, exported, stdout, stderr, exit_code, loads>>

\* Lines 74-80: export the whole object, record it.
SplitSingleExport ==
    /\ pc = "s_single"
    /\ i > Len(mesh.geoms)
    /\ LET filename == out_path \o GlbExt
       IN /\ exported' = Append(exported, [path |-> filename, entity |-> mesh])
          /\ results' = Append(results,
                [index |-> 1, name |-> Basename(input_path),
                 file |-> Basename(filename)])
    /\ pc' = "s_print"
    /\ UNCHANGED <<argv, mode, input_path, out_path, category, loaded, mesh, i,
                   applied, stdout, stderr, exit_code, loads>>

SplitSingleExportFails ==
    /\ pc = "s_single"
    /\ i > Len(mesh.geoms)
    /\ Raised
    /\ UNCHANGED <<argv, mode, input_path, out_path, category, loaded, mesh, i,
                   applied, results, exported, stdout, loads>>

\* print(json.dumps(results)): one line on stdout holding the JSON array,
\* kept here as the array of records it encodes.
SplitPrint ==
    /\ pc = "s_print"
    /\ stdout' = Append(stdout, results)
    /\ pc' = "done"
    /\ exit_code' = 0
    /\ UNCHANGED <<argv, mode, input_path, out_path, category, loaded, mesh, i,
                   applied, results, exported, stderr, loads>>

\* ------------------------------------------------------------- specification
Next ==
    \/ Main
    \/ ConvertLoad
    \/ ConvertLoadFails
    \/ ConvertColour
    \/ ConvertExport
    \/ ConvertExportFails
    \/ SplitLoad
    \/ SplitLoadFails
    \/ SplitEach
    \/ SplitEachExportFails
    \/ SplitSingleColour
    \/ SplitSingleExport
    \/ SplitSingleExportFails
    \/ SplitPrint

Spec == Init /\ [][Next]_vars

\* ------------------------------------------------------------- vocabulary of the properties
KnownCategories == {KeySupports, KeyConnectors, KeyLockpins, KeyOther}

\* The hex colours written next to the table entries (lines 19-22).
DocumentedRGBA(c) ==
    CASE c = KeySupports -> <<247, 182, 0, 255>>
      [] c = KeyConnectors -> <<0, 86, 179, 255>>
      [] c = KeyLockpins -> <<196, 30, 58, 255>>
      [] c = KeyOther -> <<74, 158, 74, 255>>

DefaultGrey == <<127, 127, 127, 255>>

\* The geometries _apply_color has been called on, as they are now.
Coloured == {mesh.geoms[applied[j]] : j \in 1..Len(applied)}

UniformlyColoured(g, rgba) ==
    /\ Len(g.visual) = g.faces
    /\ \A f \in 1..Len(g.visual) : g.visual[f] = rgba

\* f is the final path component of p.
IsFinalComponent(f, p) ==
    /\ Len(f) <= Len(p)
    /\ SubSeq(p, Len(p) - Len(f) + 1, Len(p)) = f
    /\ \A k \in 1..Len(f) : f[k] # "/"
    /\ Len(f) = Len(p) \/ p[Len(p) - Len(f)] = "/"

HasSplitFlag == Len(argv) >= 2 /\ argv[2] = SplitFlag

\* Number of exports a completed split run makes for a loaded object.
SplitExports(m) ==
    IF m.kind = "Scene" /\ Len(m.geoms) > 1 THEN Len(m.geoms) ELSE 1

IsPrefixOf(s, t) == Len(s) <= Len(t) /\ SubSeq(t, 1, Len(s)) = s

\* ------------------------------------------------------------- C1
\* C1: for each of the four known categories the colour _apply_color
\* resolves is the documented byte quadruple (the hex colour of the table
\* entry, the component times 255 rounded to nearest).
C1_DocumentedColours ==
    (applied # <<>> /\ category \in KnownCategories)
        => color_rgba(category) = DocumentedRGBA(category)

\* ------------------------------------------------------------- C2
\* C2: a completed split_convert on a scene with k > 1 geometries has made
\* exactly k exports, the n-th to "<prefix>-<n>.glb", and printed one JSON
\* array of k records, the n-th with index n and the name of the n-th
\* geometry in the scene's insertion order.
C2_SplitPerGeometry ==
    (pc = "done" /\ mode = "split" /\ loaded.kind = "Scene" /\ Len(loaded.geoms) > 1)
        => LET k == Len(loaded.geoms)
           IN /\ Len(exported) = k
              /\ \A n \in 1..k :
                    exported[n].path = argv[4] \o <<"-", Digits[n + 1]>> \o GlbExt
              /\ Len(stdout) = 1
              /\ Len(stdout[1]) = k
              /\ \A n \in 1..k :
                    /\ stdout[1][n].index = n
                    /\ stdout[1][n].name = loaded.geoms[n].name

C2_Witness ==
    /\ pc = "done"
    /\ mode = "split"
    /\ loaded.kind = "Scene"
    /\ Len(loaded.geoms) = 3
    /\ loaded.geoms[1].name = GeomNames[3]
    /\ Len(stdout) = 1

\* ------------------------------------------------------------- C3
\* C3: a completed split_convert on a single geometry, or on a scene with
\* exactly one geometry, has made exactly one export, to "<prefix>.glb",
\* and printed exactly one record, with index 1 and the base name of the
\* input path as its name.
C3_SplitSingle ==
    (/\ pc = "done"
     /\ mode = "split"
     /\ loaded.kind = "Trimesh" \/ (loaded.kind = "Scene" /\ Len(loaded.geoms) = 1))
        => /\ Len(exported) = 1
           /\ exported[1].path = argv[4] \o GlbExt
           /\ Len(stdout) = 1
           /\ Len(stdout[1]) = 1
           /\ stdout[1][1].index = 1
           /\ IsFinalComponent(stdout[1][1].name, argv[3])

C3_Witness ==
    /\ pc = "done"
    /\ mode = "split"
    /\ loaded.kind = "Scene"
    /\ Len(loaded.geoms) = 1
    /\ \E k \in 1..Len(input_path) : input_path[k] = "/"
    /\ stdout[1][1].name # loaded.geoms[1].name
    /\ stdout[1][1].name # input_path

\* ------------------------------------------------------------- C4
\* C4: for a category that is not one of the four table keys (the empty
\* string and a differently-cased key included) every colourised geometry
\* carries [127,127,127,255], and the run is not ended by it: a completed
\* run has made the same exports as for a known category.
C4_UnknownIsGrey ==
    (mode # "none" /\ category \notin KnownCategories)
        => /\ \A g \in Coloured : UniformlyColoured(g, DefaultGrey)
           /\ pc # "usage"
           /\ pc = "done" =>
                Len(exported) = IF mode = "split" THEN SplitExports(loaded) ELSE 1

C4_Witness ==
    /\ pc = "done"
    /\ category = <<"S", "u", "p", "p", "o", "r", "t", "s">>
    /\ \E g \in Coloured : g.faces = 2
    /\ exported # <<>>

\* ------------------------------------------------------------- C5
\* C5: a geometry _apply_color was called on has exactly as many colour
\* entries as faces (its face count unchanged), every entry the colour
\* resolved for the category, every component in 0..255, whatever colour
\* attribute it had when loaded.
C5_UniformFaceColours ==
    \A j \in 1..Len(applied) :
        LET g == mesh.geoms[applied[j]]
        IN /\ g.faces = loaded.geoms[applied[j]].faces
           /\ UniformlyColoured(g, color_rgba(category))
           /\ \A f \in 1..Len(g.visual) : \A c \in 1..4 : g.visual[f][c] \in 0..255
           /\ \A f \in 1..Len(g.visual) : Len(g.visual[f]) = 4

C5_Witness ==
    \E j \in 1..Len(applied) :
        /\ loaded.geoms[applied[j]].faces = 2
        /\ loaded.geoms[applied[j]].visual = <<LoadedColor, LoadedColor>>
        /\ mesh.geoms[applied[j]].visual # loaded.geoms[applied[j]].visual

\* ------------------------------------------------------------- C6
\* C6: when "--split" is the first argument and fewer than 2 arguments
\* follow it, or it is not and fewer than 2 arguments are given, the run
\* ends with a usage line on stderr and status 1, with no load, no export
\* and nothing on stdout; and a usage exit happens in no other case.
ArgsMissing ==
    \/ HasSplitFlag /\ Len(argv) - 2 < 2
    \/ ~HasSplitFlag /\ Len(argv) - 1 < 2

C6_UsageOnMissingArgs ==
    /\ ArgsMissing =>
        /\ pc \in {"start", "usage"}
        /\ loads = 0
        /\ exported = <<>>
        /\ stdout = <<>>
    /\ pc = "usage" =>
        /\ ArgsMissing
        /\ exit_code = 1
        /\ stderr = <<IF HasSplitFlag THEN "Usage --split" ELSE "Usage">>

C6_Witness ==
    /\ pc = "usage"
    /\ HasSplitFlag
    /\ Len(argv) = 3

\* ------------------------------------------------------------- C7
\* C7: convert makes one load and at most one export and prints nothing;
\* when the export has happened, every geometry of the loaded object has
\* been colourised once, in order, with the colour of the one category,
\* and the object exported to the given path is that colourised whole.
C7_ConvertLinear ==
    mode = "convert" =>
        /\ loads <= 1
        /\ stdout = <<>>
        /\ Len(exported) <= 1
        /\ applied # <<>> => loads = 1
        /\ pc = "done" => Len(exported) = 1
        /\ exported # <<>> =>
            /\ loads = 1
            /\ exported[1].path = argv[3]
            /\ exported[1].entity = mesh
            /\ applied = [n \in 1..Len(loaded.geoms) |-> n]
            /\ \A n \in 1..Len(mesh.geoms) :
                    UniformlyColoured(mesh.geoms[n], color_rgba(category))

C7_Witness ==
    /\ mode = "convert"
    /\ pc = "done"
    /\ loaded.kind = "Scene"
    /\ Len(loaded.geoms) = 3
    /\ Len(exported) = 1

\* ------------------------------------------------------------- C8
\* C8: a failed load or export ends the run there: nothing happens after
\* the failure, load is never called twice, exports already made stay, and
\* in split mode the JSON array is printed at most once and only when
\* every export of the run has succeeded.
C8_FailureState ==
    /\ loads <= 1
    /\ Len(stdout) <= 1
    /\ pc = "failed" =>
        /\ stdout = <<>>
        /\ exit_code = 1
    /\ stdout # <<>> =>
        /\ mode = "split"
        /\ pc = "done"
        /\ Len(exported) = SplitExports(loaded)
        /\ stdout[1] = results

C8_FailureStep ==
    /\ pc # "failed"
    /\ IsPrefixOf(exported, exported')
    /\ loads' > loads => loads = 0

C8_FailFast == []C8_FailureState /\ [][C8_FailureStep]_vars

C8_Witness ==
    /\ pc = "failed"
    /\ mode = "split"
    /\ Len(exported) = 2
    /\ Len(applied) = 3

\* ------------------------------------------------------------- C9
\* C9: the category is the argument after the two required positionals
\* (4th after "--split", 3rd otherwise); omitted, every colourised geometry
\* gets the colour of "supports"; given, the colour of the given category;
\* later arguments change nothing.
GivenCategory ==
    IF HasSplitFlag
    THEN IF Len(argv) >= 5 THEN argv[5] ELSE KeySupports
    ELSE IF Len(argv) >= 4 THEN argv[4] ELSE KeySupports

C9_CategoryArgument ==
    /\ mode # "none" => category = GivenCategory
    /\ \A g \in Coloured : UniformlyColoured(g, color_rgba(GivenCategory))

C9_Witness ==
    /\ HasSplitFlag
    /\ Len(argv) = 4
    /\ pc = "done"
    /\ \E g \in Coloured : g.faces > 0 /\ g.visual[1] = <<247, 182, 0, 255>>

\* ------------------------------------------------------------- C10
\* C10: in a completed split run the printed records correspond one to one,
\* in order, to the exports made: as many records as exports, at least one
\* (also for a scene without geometries), the n-th record's file the final
\* path component of the n-th exported path, the file fields distinct.
C10_RecordsMatchExports ==
    (pc = "done" /\ mode = "split") =>
        /\ Len(stdout) = 1
        /\ LET recs == stdout[1]
           IN /\ Len(recs) = Len(exported)
              /\ Len(recs) >= 1
              /\ Len(recs) = SplitExports(loaded)
              /\ \A n \in 1..Len(recs) :
                    /\ recs[n].index = n
                    /\ IsFinalComponent(recs[n].file, exported[n].path)
              /\ \A n, q \in 1..Len(recs) : n # q => recs[n].file # recs[q].file

C10_Witness ==
    /\ pc = "done"
    /\ mode = "split"
    /\ loaded.kind = "Scene"
    /\ Len(loaded.geoms) = 0
    /\ \E k \in 1..Len(out_path) : out_path[k] = "/"
    /\ Len(stdout[1]) = 1

==========================================================================
